---- MODULE Spec2Model ----
(***************************************************************************)
(* HR Resume Analysis RAG agent: the ingestion request (update_vectorstore *)
(* of app.py with load_documents, create_vector_store,                     *)
(* _ensure_index_exists and delete_all_documents of document_service.py)   *)
(* and the query request (chat of app.py with process_chat_question of     *)
(* chat_service.py), both acting on the one named Pinecone index.          *)
(*                                                                         *)
(* The index is the shared state: its lifecycle (Absent, Provisioning,     *)
(* Ready), its reported dimension and its records.  One ingestion request  *)
(* and one query request are in flight at a time each; their steps         *)
(* interleave at every call to an external service, since nothing in the   *)
(* source serialises the two handlers.                                     *)
(***************************************************************************)
EXTENDS Naturals, Sequences, FiniteSets

(* ------------------------------ bounds -------------------------------- *)

\* Files in a directory handed to load_documents called by itself.
MaxFiles == 2

\* Files under the path of an ingestion request.
MaxRequestFiles == 1

\* Ingestion requests in one behaviour.
MaxRuns == 1

\* Documents PyPDFLoader yields for a readable pdf (one per page).
PdfPages == 2

(* ------------------------- program constants -------------------------- *)

\* dimension=1536 in both pc.create_index calls and in the mismatch test.
IndexDimension == 1536

\* Output dimension of OpenAIEmbeddings as constructed (default model).
EmbeddingDimension == 1536

\* search_kwargs={"k": 5}
K == 5

\* A dimension other than 1536 that an index found at start may report.
OtherDimension == 768

(* ------------------------------ helpers ------------------------------- *)

Range(s) == {s[i] : i \in 1..Len(s)}

Min(a, b) == IF a < b THEN a ELSE b

NoPath == [kind |-> "none", files |-> <<>>]

\* Extensions of files that may lie in a directory; "md" has no loader.
Exts == {"txt", "pdf", "docx", "md"}

\* A file: its extension and whether its reader succeeds on it.
Files == [ext : Exts, ok : BOOLEAN]

Dirs == UNION {[1..n -> Files] : n \in 0..MaxFiles}

\* What lies at an existing file_path: a single file, a directory, or
\* something that is neither (a device, a socket).
Paths ==
    {[kind |-> "file", files |-> <<f>>] : f \in Files}
    \cup {[kind |-> "dir", files |-> d] : d \in Dirs}
    \cup {[kind |-> "other", files |-> <<>>]}

\* What may lie at the path of an ingestion request.
RequestPaths == {p \in Paths : Len(p.files) <= MaxRequestFiles}

(* --------------------------- Document Loader -------------------------- *)

\* loaders[ext]().load(): the Documents of file number i, one per page for a
\* pdf and one otherwise.  A Document is <<file number, page>>.
Load(i, f) ==
    [p \in 1..(IF f.ext = "pdf" THEN PdfPages ELSE 1) |-> <<i, p>>]

\* A reader that returns what it had read of a file before it failed.
load_single_file_partial(i, f) ==
    IF f.ext \notin {"txt", "pdf", "docx"} THEN <<>> ELSE Load(i, f)

_load_single_file(i, f) ==
    IF f.ext \notin {"txt", "pdf", "docx"}
    THEN <<>>                       \* logger.warning, return []
    ELSE IF f.ok THEN Load(i, f)    \* return documents
         ELSE <<>>                  \* except Exception: return []

\* glob.glob(os.path.join(path, '**', ext)): the numbers of the files of
\* the directory with extension ext, in listing order.
RECURSIVE Glob(_, _, _)
Glob(files, ext, i) ==
    IF i > Len(files) THEN <<>>
    ELSE (IF files[i].ext = ext THEN <<i>> ELSE <<>>) \o Glob(files, ext, i + 1)

\* for file in files: documents.extend(_load_single_file(file))
RECURSIVE LoadEach(_, _, _)
LoadEach(files, found, j) ==
    IF j > Len(found) THEN <<>>
    ELSE _load_single_file(found[j], files[found[j]])
         \o LoadEach(files, found, j + 1)

load_documents(path) ==
    IF path.kind = "file"
    THEN _load_single_file(1, path.files[1])
    ELSE IF path.kind = "dir"
         THEN LoadEach(path.files, Glob(path.files, "txt", 1), 1)
              \o LoadEach(path.files, Glob(path.files, "pdf", 1), 1)
              \o LoadEach(path.files, Glob(path.files, "docx", 1), 1)
         ELSE <<>>

\* splitter.split_documents(documents): every Document of the model is
\* shorter than chunk_size, so each yields one chunk carrying its metadata.
split_documents(documents) ==
    [i \in 1..Len(documents) |-> [doc |-> documents[i], part |-> 1]]

(* ------------------------------ Retriever ----------------------------- *)

\* The similarity order of two records for the question: a fixed total
\* order (newer run first, then position).  A record is <<run, position>>.
Closer(a, b) == a[1] > b[1] \/ (a[1] = b[1] /\ a[2] < b[2])

RECURSIVE Ranked(_)
Ranked(S) ==
    IF S = {} THEN <<>>
    ELSE LET best == CHOOSE a \in S : \A b \in S \ {a} : Closer(a, b)
         IN <<best>> \o Ranked(S \ {best})

\* retriever with k = 5: the K closest records, closest first.
Retrieve(S) == SubSeq(Ranked(S), 1, Min(K, Cardinality(S)))

(* ------------------------------- state -------------------------------- *)

VARIABLES
    indexState,   \* "Absent", "Provisioning" or "Ready"
    indexDim,     \* dimension describe_index reports (0 when absent)
    records,      \* the Index Records, each <<run, position>>
    ipc,          \* position of the ingestion request
    run,          \* number of the ingestion request (ids of its records)
    file_path,    \* load_documents called by itself: what lies at its path
    cleared,      \* result of delete_all_documents: "none", "ok", "failed"
    documents,    \* load_documents' result
    chunks,       \* create_vector_store: the chunks to write
    written,      \* from_documents: chunks written so far
    vectorstore,  \* create_vector_store's result: "none", "None", "store"
    flashes,      \* messages flashed by this request
    embedCalls,   \* embed_documents calls made by this request
    ensured,      \* what _ensure_index_exists did: "none", "kept",
                  \* "created", "recreated"
    index_info,   \* dimension pc.describe_index reported (0: not asked)
    hadRecords,   \* whether the index held records when the request began
    qpc,          \* position of the query request
    context,      \* chunks the chain's retriever returned (prompt context)
    sources,      \* chunks get_relevant_documents returned
    response,     \* what chat returns
    llmCalls,     \* calls of the Language Model Provider by this request
    midRebuild    \* run whose rebuild the chain's retrieval ran inside (0: none)

ivars == <<ipc, run, file_path, cleared, documents, chunks, written,
           vectorstore, flashes, embedCalls, ensured, index_info, hadRecords>>

qvars == <<qpc, context, sources, response, llmCalls, midRebuild>>

xvars == <<indexState, indexDim, records>>

vars == <<indexState, indexDim, records, ipc, run, file_path, cleared,
          documents, chunks, written, vectorstore, flashes, embedCalls,
          ensured, index_info, hadRecords, qpc, context, sources, response, llmCalls,
          midRebuild>>

\* The index takes vectors of the Embedding Provider: it is ready and of
\* their dimension.
Usable == indexState = "Ready" /\ indexDim = EmbeddingDimension

\* The index as a request may find it: absent; being provisioned (created
\* moments ago, by hand or by a request that ended before it was ready);
\* ready with another dimension, with or without records of an older
\* deployment; ready with the right dimension, empty or holding the records
\* of an earlier ingestion (run 0).
InitIndex ==
    \/ indexState = "Absent" /\ indexDim = 0 /\ records = {}
    \/ /\ indexState = "Provisioning"
       /\ indexDim \in {OtherDimension, IndexDimension}
       /\ records = {}
    \/ /\ indexState = "Ready"
       /\ indexDim \in {OtherDimension, IndexDimension}
       /\ records \in {{}, {<<0, 1>>, <<0, 2>>}}

InitIngest ==
    /\ ipc = "idle"
    /\ run = 0
    /\ file_path = NoPath
    /\ cleared = "none"
    /\ documents = <<>>
    /\ chunks = <<>>
    /\ written = 0
    /\ vectorstore = "none"
    /\ flashes = <<>>
    /\ embedCalls = 0
    /\ ensured = "none"
    /\ index_info = 0
    /\ hadRecords = FALSE

InitQuery ==
    /\ qpc = "idle"
    /\ context = <<>>
    /\ sources = <<>>
    /\ response = "none"
    /\ llmCalls = 0
    /\ midRebuild = 0

Init == InitIndex /\ InitIngest /\ InitQuery

(* ----------------------- ingestion: app.py ---------------------------- *)

\* update_vectorstore, up to the path test; exists is
\* bool(file_path) and os.path.exists(file_path).
UpdateRequest(exists) ==
    /\ ipc = "idle"
    /\ run < MaxRuns
    /\ run' = run + 1
    /\ hadRecords' = (records # {})
    /\ IF ~exists
       THEN /\ flashes' = <<"error: Invalid path">>
            /\ ipc' = "done"
       ELSE /\ flashes' = <<>>
            /\ ipc' = "delete_all_documents"
    /\ UNCHANGED <<file_path, cleared, documents, chunks, written,
                   vectorstore, embedCalls, ensured, index_info>>
    /\ UNCHANGED <<xvars, qvars>>

\* delete_all_documents returns True although the records were not
\* deleted.
DeleteAllDocumentsKeeps ==
    /\ ipc = "delete_all_documents"
    /\ indexState = "Ready"
    /\ cleared' = "ok"
    /\ flashes' = Append(flashes, "info: Existing documents cleared.")
    /\ ipc' = "load_documents"
    /\ UNCHANGED <<run, file_path, documents, chunks, written, vectorstore,
                   embedCalls, ensured, index_info, hadRecords>>
    /\ UNCHANGED <<xvars, qvars>>

\* delete_all_documents returns True: index.delete(delete_all=True) went
\* through; update_vectorstore flashes "Existing documents cleared.".
DeleteAllDocuments ==
    /\ ipc = "delete_all_documents"
    /\ indexState = "Ready"
    /\ records' = {}
    /\ cleared' = "ok"
    /\ flashes' = Append(flashes, "info: Existing documents cleared.")
    /\ ipc' = "load_documents"
    /\ UNCHANGED <<indexState, indexDim, run, file_path, documents, chunks,
                   written, vectorstore, embedCalls, ensured, index_info, hadRecords>>
    /\ UNCHANGED qvars

\* delete_all_documents returns False: pc.Index or index.delete raised
\* (index absent or not usable, network error); the error is logged, and
\* update_vectorstore flashes nothing and goes on.
DeleteAllDocumentsFails ==
    /\ ipc = "delete_all_documents"
    /\ cleared' = "failed"
    /\ ipc' = "load_documents"
    /\ UNCHANGED <<run, file_path, documents, chunks, written, vectorstore,
                   flashes, embedCalls, ensured, index_info, hadRecords>>
    /\ UNCHANGED <<xvars, qvars>>

\* documents = load_documents(file_path); if not documents: flash, return.
\* p is what lies at the path when load_documents reads it.
LoadDocuments(p) ==
    /\ ipc = "load_documents"
    /\ documents' = load_documents(p)
    /\ IF documents' = <<>>
       THEN /\ flashes' = Append(flashes, "warning: No documents found.")
            /\ ipc' = "done"
       ELSE /\ flashes' = flashes
            /\ ipc' = "create_vector_store"
    /\ UNCHANGED <<run, file_path, cleared, chunks, written, vectorstore,
                   embedCalls, ensured, index_info, hadRecords>>
    /\ UNCHANGED <<xvars, qvars>>

\* vectorstore = create_vector_store(documents) returned: flash the
\* outcome (success when the result is truthy, error when it is None).
ReportResult ==
    /\ ipc = "returned"
    /\ flashes' = Append(flashes,
                         IF vectorstore = "store"
                         THEN "success: Successfully updated"
                         ELSE "error: Error creating vector store.")
    /\ ipc' = "done"
    /\ UNCHANGED <<run, file_path, cleared, documents, chunks, written,
                   vectorstore, embedCalls, ensured, index_info, hadRecords>>
    /\ UNCHANGED <<xvars, qvars>>

\* return redirect(url_for('index')): the request is over.
Redirect ==
    /\ ipc = "done"
    /\ ipc' = "idle"
    /\ cleared' = "none"
    /\ documents' = <<>>
    /\ chunks' = <<>>
    /\ written' = 0
    /\ vectorstore' = "none"
    /\ flashes' = <<>>
    /\ embedCalls' = 0
    /\ ensured' = "none"
    /\ index_info' = 0
    /\ hadRecords' = FALSE
    /\ UNCHANGED <<run, file_path>>
    /\ UNCHANGED <<xvars, qvars>>

(* ------------------- ingestion: create_vector_store ------------------- *)

\* if not documents: return None; else split the documents and set up the
\* Pinecone client.
CreateVectorStore ==
    /\ ipc = "create_vector_store"
    /\ IF documents = <<>>
       THEN /\ vectorstore' = "None"
            /\ chunks' = chunks
            /\ ipc' = "returned"
       ELSE /\ vectorstore' = vectorstore
            /\ chunks' = split_documents(documents)
            /\ ipc' = "list_indexes"
    /\ UNCHANGED <<run, file_path, cleared, documents, written, flashes,
                   embedCalls, ensured, index_info, hadRecords>>
    /\ UNCHANGED <<xvars, qvars>>

\* _ensure_index_exists: existing_indexes = [... pc.list_indexes()] and the
\* test index_name not in existing_indexes.
ListIndexes ==
    /\ ipc = "list_indexes"
    /\ ipc' = IF indexState = "Absent" THEN "create_index"
              ELSE "describe_index"
    /\ UNCHANGED <<run, file_path, cleared, documents, chunks, written,
                   vectorstore, flashes, embedCalls, ensured, index_info, hadRecords>>
    /\ UNCHANGED <<xvars, qvars>>

\* pc.create_index(name, dimension=768): an index of another dimension.
CreateIndexOtherDimension ==
    /\ ipc = "create_index"
    /\ indexState = "Absent"
    /\ indexState' = "Provisioning"
    /\ indexDim' = OtherDimension
    /\ records' = {}
    /\ ensured' = IF ensured = "none" THEN "created" ELSE "recreated"
    /\ ipc' = "sleep_10"
    /\ UNCHANGED <<run, file_path, cleared, documents, chunks, written,
                   vectorstore, flashes, embedCalls, index_info, hadRecords>>
    /\ UNCHANGED qvars

\* pc.create_index(name=index_name, dimension=1536, metric='cosine', ...):
\* the store begins to provision the index.  Provisioned may come at any
\* time after it: before the call returns (a client that waits for the
\* index), during the sleep, or later.
CreateIndex ==
    /\ ipc = "create_index"
    /\ indexState = "Absent"
    /\ indexState' = "Provisioning"
    /\ indexDim' = IndexDimension
    /\ records' = {}
    /\ ensured' = IF ensured = "none" THEN "created" ELSE "recreated"
    /\ ipc' = "sleep_10"
    /\ UNCHANGED <<run, file_path, cleared, documents, chunks, written,
                   vectorstore, flashes, embedCalls, index_info, hadRecords>>
    /\ UNCHANGED qvars

\* time.sleep(10)  # Wait for initialization; _ensure_index_exists returns.
Sleep10 ==
    /\ ipc = "sleep_10"
    /\ ipc' = "from_documents"
    /\ UNCHANGED <<run, file_path, cleared, documents, chunks, written,
                   vectorstore, flashes, embedCalls, ensured, index_info, hadRecords>>
    /\ UNCHANGED <<xvars, qvars>>

\* index_info = pc.describe_index(index_name) and the dimension test; with
\* the dimension right, _ensure_index_exists returns.
DescribeIndex ==
    /\ ipc = "describe_index"
    /\ indexState # "Absent"
    /\ index_info' = indexDim
    /\ IF indexDim # IndexDimension
       THEN ipc' = "delete_index" /\ ensured' = ensured
       ELSE ipc' = "from_documents" /\ ensured' = "kept"
    /\ UNCHANGED <<run, file_path, cleared, documents, chunks, written,
                   vectorstore, flashes, embedCalls, hadRecords>>
    /\ UNCHANGED <<xvars, qvars>>

\* pc.delete_index(index_name): the index and all its records are gone.
DeleteIndex ==
    /\ ipc = "delete_index"
    /\ indexState # "Absent"
    /\ indexState' = "Absent"
    /\ indexDim' = 0
    /\ records' = {}
    /\ ensured' = "deleted"
    /\ ipc' = "sleep_5"
    /\ UNCHANGED <<run, file_path, cleared, documents, chunks, written,
                   vectorstore, flashes, embedCalls, index_info, hadRecords>>
    /\ UNCHANGED qvars

\* time.sleep(5), then the second pc.create_index.
Sleep5 ==
    /\ ipc = "sleep_5"
    /\ ipc' = "create_index"
    /\ UNCHANGED <<run, file_path, cleared, documents, chunks, written,
                   vectorstore, flashes, embedCalls, ensured, index_info, hadRecords>>
    /\ UNCHANGED <<xvars, qvars>>

\* A call of the client inside _ensure_index_exists raises: the except
\* clause of create_vector_store logs it and returns None.
EnsureRaises ==
    /\ ipc \in {"list_indexes", "create_index", "describe_index",
                "delete_index"}
    /\ vectorstore' = "None"
    /\ ipc' = "returned"
    /\ UNCHANGED <<run, file_path, cleared, documents, chunks, written,
                   flashes, embedCalls, ensured, index_info, hadRecords>>
    /\ UNCHANGED <<xvars, qvars>>

\* PineconeVectorStore.from_documents(chunks, embeddings, ...) begins: the
\* chunk texts go to the Embedding Provider.
FromDocuments ==
    /\ ipc = "from_documents"
    /\ embedCalls' = embedCalls + 1
    /\ ipc' = "upsert"
    /\ UNCHANGED <<run, file_path, cleared, documents, chunks, written,
                   vectorstore, flashes, ensured, index_info, hadRecords>>
    /\ UNCHANGED <<xvars, qvars>>

\* from_documents writes its vectors in separate upsert requests (a chunk
\* of the model stands for the chunks of one request): the next one goes
\* through (the index must be usable).
Upsert ==
    /\ ipc = "upsert"
    /\ written < Len(chunks)
    /\ Usable
    /\ records' = records \cup {<<run, written + 1>>}
    /\ written' = written + 1
    /\ UNCHANGED <<indexState, indexDim, ipc, run, file_path, cleared,
                   documents, chunks, vectorstore, flashes, embedCalls,
                   ensured, index_info, hadRecords>>
    /\ UNCHANGED qvars

\* Every write went through: return vectorstore.
UpsertDone ==
    /\ ipc = "upsert"
    /\ written = Len(chunks)
    /\ vectorstore' = "store"
    /\ ipc' = "returned"
    /\ UNCHANGED <<run, file_path, cleared, documents, chunks, written,
                   flashes, embedCalls, ensured, index_info, hadRecords>>
    /\ UNCHANGED <<xvars, qvars>>

\* The embedding call or an upsert request raises (provider or network
\* error, index not usable): what was written stays, the except clause of
\* create_vector_store logs the error and returns None.
FromDocumentsRaises ==
    /\ ipc \in {"from_documents", "upsert"}
    /\ written < Len(chunks)
    /\ vectorstore' = "None"
    /\ ipc' = "returned"
    /\ UNCHANGED <<run, file_path, cleared, documents, chunks, written,
                   flashes, embedCalls, ensured, index_info, hadRecords>>
    /\ UNCHANGED <<xvars, qvars>>

(* --------------------------- Vector Index ----------------------------- *)

\* The backing store finishes provisioning the index.
Provisioned ==
    /\ indexState = "Provisioning"
    /\ indexState' = "Ready"
    /\ UNCHANGED <<indexDim, records>>
    /\ UNCHANGED <<ivars, qvars>>

(* --------------------- query: app.py, chat_service -------------------- *)

\* The question of a chat request, after strip(): empty or not.
Questions == {"", "What skills does the candidate have?"}

\* The ingestion request has cleared the index and its from_documents has
\* not yet written every chunk.
Rebuilding ==
    /\ cleared = "ok"
    /\ ipc \in {"load_documents", "create_vector_store", "list_indexes",
                "create_index", "sleep_10", "describe_index",
                "delete_index", "sleep_5", "from_documents", "upsert"}
    /\ ~(ipc = "upsert" /\ written = Len(chunks))

\* chat, up to the test of the question.
ChatRequest(q) ==
    /\ qpc = "idle"
    /\ IF q = ""
       THEN /\ response' = "400: No question provided"
            /\ qpc' = "done"
       ELSE /\ response' = response
            /\ qpc' = "get_vector_store"
    /\ UNCHANGED <<context, sources, llmCalls, midRebuild>>
    /\ UNCHANGED <<xvars, ivars>>

\* get_vector_store() returns a PineconeVectorStore on the named index.
GetVectorStore ==
    /\ qpc = "get_vector_store"
    /\ indexState # "Absent"
    /\ qpc' = "retriever"
    /\ UNCHANGED <<context, sources, response, llmCalls, midRebuild>>
    /\ UNCHANGED <<xvars, ivars>>

\* get_vector_store() returns None (the constructor raised: no such index,
\* network error); chat answers 400.
GetVectorStoreFails ==
    /\ qpc = "get_vector_store"
    /\ response' = "400: Vector store not available"
    /\ qpc' = "done"
    /\ UNCHANGED <<context, sources, llmCalls, midRebuild>>
    /\ UNCHANGED <<xvars, ivars>>

\* The retrieval of chain.invoke, also guarded by a lock that an ingestion
\* in progress holds.
ChainRetrieverLocked ==
    /\ qpc = "retriever"
    /\ Usable
    /\ ipc \in {"idle", "done"}
    /\ context' = Retrieve(records)
    /\ midRebuild' = (IF Rebuilding THEN run ELSE 0)
    /\ qpc' = "llm"
    /\ UNCHANGED <<sources, response, llmCalls>>
    /\ UNCHANGED <<xvars, ivars>>

\* chain.invoke(question), first part: "context": retriever | _format_docs.
\* The retriever returns the k closest records; _format_docs joins their
\* page_content in that order, so the context is that sequence of chunks.
ChainRetriever ==
    /\ qpc = "retriever"
    /\ Usable
    /\ context' = Retrieve(records)
    /\ midRebuild' = (IF Rebuilding THEN run ELSE 0)
    /\ qpc' = "llm"
    /\ UNCHANGED <<sources, response, llmCalls>>
    /\ UNCHANGED <<xvars, ivars>>

\* The chain's prompt goes to the llm, which fails, and the call is made
\* again.
LlmRaisesRetried ==
    /\ qpc = "llm"
    /\ llmCalls < 2
    /\ llmCalls' = llmCalls + 1
    /\ response' = "500: generation"
    /\ UNCHANGED <<qpc, context, sources, midRebuild>>
    /\ UNCHANGED <<xvars, ivars>>

\* chain.invoke(question), second part: HR_PROMPT | llm answers; the answer
\* is rendered by markdown.markdown.
Llm ==
    /\ qpc = "llm"
    /\ llmCalls' = llmCalls + 1
    /\ qpc' = "get_relevant_documents"
    /\ UNCHANGED <<context, sources, response, midRebuild>>
    /\ UNCHANGED <<xvars, ivars>>

\* The llm call raises (timeout, quota): the exception leaves
\* process_chat_question and chat answers 500 with its message.
LlmRaises ==
    /\ qpc = "llm"
    /\ llmCalls' = llmCalls + 1
    /\ response' = "500: generation"
    /\ qpc' = "done"
    /\ UNCHANGED <<context, sources, midRebuild>>
    /\ UNCHANGED <<xvars, ivars>>

\* source_docs = retriever.get_relevant_documents(question): a second
\* retrieval; its records become the sources of the response.
GetRelevantDocuments ==
    /\ qpc = "get_relevant_documents"
    /\ Usable
    /\ sources' = Retrieve(records)
    /\ response' = "200: answer"
    /\ qpc' = "done"
    /\ UNCHANGED <<context, llmCalls, midRebuild>>
    /\ UNCHANGED <<xvars, ivars>>

\* A retrieval raises (index gone, not ready or of another dimension,
\* network error): chat
\* answers 500 with the exception's message.
RetrieverRaises ==
    /\ qpc \in {"retriever", "get_relevant_documents"}
    /\ response' = "500: retrieval"
    /\ qpc' = "done"
    /\ UNCHANGED <<context, sources, llmCalls, midRebuild>>
    /\ UNCHANGED <<xvars, ivars>>

\* return jsonify(...): the request is over.
ChatReturn ==
    /\ qpc = "done"
    /\ qpc' = "idle"
    /\ context' = <<>>
    /\ sources' = <<>>
    /\ response' = "none"
    /\ llmCalls' = 0
    /\ midRebuild' = 0
    /\ UNCHANGED <<xvars, ivars>>

\* The steps of the query request.
Chat ==
    \/ \E q \in Questions : ChatRequest(q)
    \/ GetVectorStore
    \/ GetVectorStoreFails
    \/ ChainRetriever
    \/ Llm
    \/ LlmRaises
    \/ GetRelevantDocuments
    \/ RetrieverRaises
    \/ ChatReturn

Next ==
    \/ \E exists \in BOOLEAN : UpdateRequest(exists)
    \/ DeleteAllDocuments
    \/ DeleteAllDocumentsFails
    \/ \E p \in RequestPaths : LoadDocuments(p)
    \/ ReportResult
    \/ Redirect
    \/ CreateVectorStore
    \/ ListIndexes
    \/ CreateIndex
    \/ Sleep10
    \/ DescribeIndex
    \/ DeleteIndex
    \/ Sleep5
    \/ EnsureRaises
    \/ FromDocuments
    \/ Upsert
    \/ UpsertDone
    \/ FromDocumentsRaises
    \/ Provisioned
    \/ Chat

Spec == Init /\ [][Next]_vars

(* -------------------- the functions called directly ------------------- *)

\* load_documents(path) called by itself, for every path of the bounds.
InitLoad ==
    /\ indexState = "Absent" /\ indexDim = 0 /\ records = {}
    /\ InitQuery
    /\ ipc = "load_documents"
    /\ run = 1
    /\ file_path \in Paths
    /\ cleared = "none"
    /\ documents = <<>>
    /\ chunks = <<>>
    /\ written = 0
    /\ vectorstore = "none"
    /\ flashes = <<>>
    /\ embedCalls = 0
    /\ ensured = "none"
    /\ index_info = 0
    /\ hadRecords = FALSE

NextLoad == LoadDocuments(file_path)

SpecLoad == InitLoad /\ [][NextLoad]_vars

\* The lists of Documents load_documents can return.
DocumentLists == {load_documents(p) : p \in RequestPaths}

\* create_vector_store(documents) called by itself, its result handled as
\* update_vectorstore handles it, for every list of Documents (the empty
\* one too) and every state of the index; requests follow.
InitCreate ==
    /\ InitIndex
    /\ records = {}
    /\ InitQuery
    /\ ipc = "create_vector_store"
    /\ run = 0
    /\ file_path = NoPath
    /\ cleared = "none"
    /\ documents \in DocumentLists
    /\ chunks = <<>>
    /\ written = 0
    /\ vectorstore = "none"
    /\ flashes = <<>>
    /\ embedCalls = 0
    /\ ensured = "none"
    /\ index_info = 0
    /\ hadRecords = FALSE

SpecCreate == InitCreate /\ [][Next]_vars

(* ------------------------------ claims -------------------------------- *)

\* _ensure_index_exists has returned to create_vector_store.
EnsureReturned ==
    /\ ensured \in {"kept", "created", "recreated"}
    /\ ipc \in {"from_documents", "upsert"}

Success == "success: Successfully updated"

\* C2: a run of update_vectorstore whose clear step failed does not end
\* reporting plain success.
C2_ClearFailureSurfaced ==
    (ipc = "done" /\ cleared = "failed") => Success \notin Range(flashes)

\* C3: nothing excludes a retrieval while the index is being rebuilt: with
\* the query at its retrieval and the index usable, the retrieval can run
\* in every state of the rebuild; and a retrieval that ran inside a rebuild
\* saw nothing of the collection indexed before, only what that run had
\* written so far.
C3_NoMutualExclusion ==
    /\ (Rebuilding /\ qpc = "retriever" /\ Usable)
           => ENABLED ChainRetriever
    /\ midRebuild # 0 => \A r \in Range(context) : r[1] = midRebuild

\* C3 witness: the index held records before the ingestion began and holds
\* every chunk of the run now that it has ended with success, and the
\* query's retrieval, run in between, saw some but not all of them.
C3_Witness ==
    /\ hadRecords
    /\ ipc = "done"
    /\ Success \in Range(flashes)
    /\ records = {<<run, i>> : i \in 1..Len(chunks)}
    /\ midRebuild = run
    /\ qpc \in {"llm", "get_relevant_documents", "done"}
    /\ Len(context) >= 1
    /\ Len(context) < Len(chunks)

\* C4: the sources returned with an answer are the chunks whose text made
\* up the context of that answer, in the same order.
C4_SourcesAreContext ==
    (qpc = "done" /\ response = "200: answer") => sources = context

\* C5: when the Language Model Provider call fails the request ends at once
\* with the generation error, without an answer, after that single call;
\* and no step of a query changes the index.
C5_GenerationError ==
    /\ [](qpc = "done" /\ response = "500: generation"
            => llmCalls = 1 /\ sources = <<>>)
    /\ [][LlmRaises => qpc' = "done" /\ response' = "500: generation"]_vars
    /\ [][Chat => UNCHANGED <<indexState, indexDim, records>>]_vars

\* C5 witness: a query on a populated index has ended with the generation
\* error.
C5_Witness ==
    /\ qpc = "done"
    /\ response = "500: generation"
    /\ context # <<>>
    /\ records # {}

\* C6: from_documents starts only when the index is Ready.
C6_UpsertOnlyWhenReady ==
    ipc = "from_documents" => indexState = "Ready"

\* The Documents of the files at path that are of a supported type and
\* whose reader succeeds.
Loadable(path) ==
    {d \in (1..Len(path.files)) \X (1..PdfPages) :
        LET f == path.files[d[1]]
        IN /\ f.ext \in {"txt", "pdf", "docx"}
           /\ f.ok
           /\ (d[2] = 1 \/ f.ext = "pdf")}

\* C7: load_documents returns exactly the Documents of the files that
\* loaded, each once, whatever files fail; a single file of an unsupported
\* type yields the empty list.
C7_LoadFailuresIsolated ==
    (file_path # NoPath /\ ipc \in {"create_vector_store", "done"}) =>
        /\ Range(documents) = Loadable(file_path)
        /\ Len(documents) = Cardinality(Loadable(file_path))
        /\ (file_path.kind = "file" /\ file_path.files[1].ext \notin {"txt", "pdf", "docx"}
                => documents = <<>> /\ ipc = "done")

\* C7 witness: a directory with a file whose reader fails and a file that
\* loads, loaded.
C7_Witness ==
    /\ file_path.kind = "dir"
    /\ ipc = "create_vector_store"
    /\ \E i, j \in 1..Len(file_path.files) :
          /\ file_path.files[i].ext \in {"txt", "pdf", "docx"}
          /\ ~file_path.files[i].ok
          /\ file_path.files[j].ext \in {"txt", "pdf", "docx"}
          /\ file_path.files[j].ok
    /\ documents # <<>>

\* C8: create_vector_store([]) yields a success result that its caller
\* treats as success, with no call of the Embedding Provider and the index
\* untouched.
C8_EmptyUpsertSucceeds ==
    (documents = <<>> /\ vectorstore # "none") =>
        /\ vectorstore = "store"
        /\ embedCalls = 0
        /\ written = 0
        /\ ensured = "none"
        /\ (ipc = "done" => Success \in Range(flashes))

\* C9: when update_vectorstore ends reporting success the index holds
\* exactly the records of the chunks of that run.
C9_RebuildByReplacement ==
    (ipc = "done" /\ Success \in Range(flashes)) =>
        records = {<<run, i>> : i \in 1..Len(chunks)}

\* C10 as claimed: a run whose clear succeeded and which ends without a
\* successful upsert leaves the index with zero records.
C10_IndexLeftEmpty ==
    (ipc = "done" /\ cleared = "ok" /\ vectorstore # "store") =>
        records = {}

\* C10 amended: such a run leaves nothing of the collection indexed before;
\* the index holds exactly the records its own from_documents had written
\* before it failed (none when it wrote nothing), and a query retrieves
\* only those.
C10_PriorCollectionLost ==
    (ipc = "done" /\ cleared = "ok" /\ vectorstore # "store") =>
        /\ records = {<<run, i>> : i \in 1..written}
        /\ (written = 0 => Retrieve(records) = <<>>)
        /\ \A r \in Range(Retrieve(records)) : r[1] = run

\* C10 witness: the index held records, the clear succeeded and the run
\* ended with an error after from_documents had written a chunk.
C10_Witness ==
    /\ ipc = "done"
    /\ cleared = "ok"
    /\ hadRecords
    /\ vectorstore = "None"
    /\ written >= 1
    /\ records # {}

====
